---- MODULE Spec2Model ----
(***************************************************************************)
(* daily-market-bot.py: main reads one spreadsheet row, formats it, drives *)
(* a headless browser to capture the heatmap (capture_heatmap, with        *)
(* goto_with_retries) and appends the message to the GITHUB_OUTPUT sink.   *)
(*                                                                         *)
(* The program is one sequential coroutine chain: pc is the statement the  *)
(* single task is at.  Every library call that can fail is an action whose *)
(* outcome ("ok" or "raise", for query_selector also "none"/"el") is drawn *)
(* nondeterministically; trace records every call in the order made.       *)
(***************************************************************************)
EXTENDS Integers, Sequences, FiniteSets, TLC

VARIABLES
    pc,         \* statement the task is at
    attempts,   \* goto_with_retries: parameter attempts
    i,          \* goto_with_retries: loop variable i
    ok,         \* value returned by goto_with_retries: "unset", "True", "False"
    sel,        \* capture_heatmap: index of loop variable sel in its list
    saved,      \* capture_heatmap: local saved
    dated,      \* content of the file HEATMAP_PATH
    latest,     \* content of the file HEATMAP_LATEST
    closeCalled,\* browser.close() (line 165) has been awaited
    pwExited,   \* the async with block of line 102 has been left
    exc,        \* exception propagating out of the current frame, or "none"
    sheet,      \* main: sheet_data, the nine cell texts (<< >> before line 175)
    message,    \* main: message_text (<< >> before line 176)
    sink,       \* content of the GITHUB_OUTPUT file: the chunks written
    trace       \* calls made so far: <<operation, argument, outcome>>

vars == <<pc, attempts, i, ok, sel, saved, dated, latest, closeCalled,
          pwExited, exc, sheet, message, sink, trace>>

\* ---------------------------------------------------------------- bounds
\* goto_with_retries is explored for attempts in 0..MaxAttempts
MaxAttempts == 4
\* the data row of the sheet has 0..MaxCols columns
MaxCols == 10
\* a cell text under test has 0..MaxCell tokens
MaxCell == 3

\* ------------------------------------------------------------- constants
\* attempts=3 passed by capture_heatmap
Attempts == 3
\* read_google_sheet: len(row) < 9
RequiredCols == 9
\* asyncio.sleep(2 + i)
BackoffBase == 2

AcceptSelectors ==
    << "button:has-text(Accept)", "button:has-text(I Accept)",
       "button:has-text(Agree)", "[aria-label*=accept]" >>

MapSelectors == << "#map", "div[id*=map]", "img[src*=map.ashx]", "canvas" >>

\* ------------------------------------------------------------------ texts
\* A text is a sequence of tokens; a token is a character or a run of
\* characters without blank, newline or percent sign.
NL == "\n"
Whitespace == {" ", NL}

\* tokens the cell texts under test are made of
CellTokens == {"1", "%", " ", NL, "EOF", "$"}

RECURSIVE LStrip(_)
LStrip(v) == IF v # << >> /\ Head(v) \in Whitespace THEN LStrip(Tail(v)) ELSE v

RECURSIVE RStrip(_)
RStrip(v) ==
    IF v # << >> /\ v[Len(v)] \in Whitespace
       THEN RStrip(SubSeq(v, 1, Len(v) - 1))
       ELSE v

\* str(val).strip()
Strip(v) == RStrip(LStrip(v))

\* fmt_pct: v = str(val).strip(); return v if "%" in v else v + "%"
fmt_pct(val) ==
    LET v == Strip(val)
    IN  IF \E k \in 1..Len(v) : v[k] = "%" THEN v ELSE Append(v, "%")

\* the string constant of line 80, written twice there (the argument of
\* startswith and the text put in front of the value); its characters are
\* missing from the source text, this token stands for them
UsdPrefix == "$"

\* the USD/CAD value of line 80:
\* d['usdcad'] if d['usdcad'].startswith(UsdPrefix) else UsdPrefix + d['usdcad']
fmt_usdcad(val) ==
    IF val # << >> /\ Head(val) = UsdPrefix THEN val ELSE <<UsdPrefix>> \o val

\* the rule of line 73 (27 box-drawing dashes)
Separator == "---------------------------"

\* fields of sheet_data in the order of the dict of lines 51-61
Fields == << "date", "sp500", "nasdaq", "tsx", "mags", "btc", "eth", "usdcad", "gold" >>

\* the fixed label of each metric line, by field position
Labels ==
    << "*Date: ", ":us: S&P 500: ", ":us: Nasdaq: ", ":flag-ca: TSX Comp: ",
       ":seven: Magnificent7: ", ":bitcoin: Bitcoin: ", ":ethereum: Ethereum: ",
       ":chart_with_upwards_trend: USD/CAD: ", ":gold_ingot: Gold: " >>

\* position of the USD/CAD field
UsdCad == 8

\* the list lines of format_slack_message
MessageLines(d) ==
    << <<Labels[1]>> \o d[1] \o <<" Market*">>, <<Separator>> >>
    \o [k \in 1..(Len(Fields) - 1) |->
          <<Labels[k + 1]>>
          \o (IF k + 1 = UsdCad THEN fmt_usdcad(d[k + 1]) ELSE fmt_pct(d[k + 1]))]

RECURSIVE JoinLines(_)
\* "\n".join(lines)
JoinLines(ls) ==
    IF ls = << >> THEN << >>
    ELSE IF Len(ls) = 1 THEN ls[1]
    ELSE ls[1] \o <<NL>> \o JoinLines(Tail(ls))

format_slack_message(d) == JoinLines(MessageLines(d))

\* a row as the sheet usually holds it
SampleRow ==
    << <<"2024-06-01">>, <<"+0.5">>, <<"+1.2">>, <<"-0.3">>, <<"+2.0">>,
       <<"+3.1">>, <<"-1.0">>, <<"1.36">>, <<"+0.8">> >>

\* what GITHUB_OUTPUT holds before the run
PriorSink == << "prior" >>

\* the three writes of lines 187-189, each ending its line
OutputBlock(m) == << "market_text<<EOF", m, "EOF" >>

\* ---------------------------------------------------------------- helpers
Log(op, arg, res) == trace' = Append(trace, <<op, arg, res>>)

Idx(op) == {k \in 1..Len(trace) : trace[k][1] = op}
IdxRes(op, res) == {k \in Idx(op) : trace[k][3] = res}
Calls(op) == Cardinality(Idx(op))

Has(op, arg, res) == \E k \in 1..Len(trace) : trace[k] = <<op, arg, res>>

\* Outcome of attempt k of goto_with_retries, read off the calls made: an
\* attempt completes when page.goto and the network-quiet wait both return.
AttemptSucceeded(k) == Has("idle", k, "ok")
AttemptFailed(k) == Has("goto", k, "raise") \/ Has("idle", k, "raise")

\* Variant: no async with block around the body, the exception goes
\* straight to the caller.
Raise_NoExit(what) == /\ exc' = what
                      /\ pc' = "failed"

\* An exception leaves the body of the async with block: the block's exit
\* runs next, browser.close() (line 165) is skipped.
Raise(what) == /\ exc' = what
               /\ pc' = "pw_exit"

\* ------------------------------------------------------------------ Init
Init ==
    /\ pc = "main_read"
    /\ attempts = 0
    /\ i = 0
    /\ ok = "unset"
    /\ sel = 0
    /\ saved = FALSE
    /\ dated \in {"absent", "old"}
    /\ latest \in {"absent", "old"}
    /\ closeCalled = FALSE
    /\ pwExited = FALSE
    /\ exc = "none"
    /\ sheet = << >>
    /\ message = << >>
    /\ sink = PriorSink
    /\ trace = << >>

\* ------------------------------------------------------------------ main
\* Variant: the length test one short (len(row) < 8): an eight-column row
\* passes it and row[8] raises IndexError.
ReadSheet_OneShort ==
    /\ pc = "main_read"
    /\ \/ /\ Log("fetch", 0, "raise")
          /\ exc' = "fetch"
          /\ pc' = "failed"
          /\ UNCHANGED sheet
       \/ \E ncols \in 0..MaxCols :
            IF ncols < RequiredCols - 1
               THEN /\ Log("fetch", ncols, "malformed")
                    /\ exc' = "malformed"
                    /\ pc' = "failed"
                    /\ UNCHANGED sheet
               ELSE IF ncols < RequiredCols
               THEN /\ Log("fetch", ncols, "index_error")
                    /\ exc' = "index_error"
                    /\ pc' = "failed"
                    /\ UNCHANGED sheet
               ELSE /\ Log("fetch", RequiredCols, "ok")
                    /\ sheet' = SampleRow
                    /\ pc' = "main_format"
                    /\ UNCHANGED exc
    /\ UNCHANGED <<attempts, i, ok, sel, saved, dated, latest, closeCalled,
                   pwExited, message, sink>>

\* sheet_data = read_google_sheet(): the fetch fails, or the row has ncols
\* columns; fewer than nine raise ValueError; the dict keeps row[0..8], so
\* the call is recorded with the number of columns it used.
ReadSheet ==
    /\ pc = "main_read"
    /\ \/ /\ Log("fetch", 0, "raise")
          /\ exc' = "fetch"
          /\ pc' = "failed"
          /\ UNCHANGED sheet
       \/ \E ncols \in 0..MaxCols :
            IF ncols < RequiredCols
               THEN /\ Log("fetch", ncols, "malformed")
                    /\ exc' = "malformed"
                    /\ pc' = "failed"
                    /\ UNCHANGED sheet
               ELSE /\ Log("fetch", RequiredCols, "ok")
                    /\ sheet' = SampleRow
                    /\ pc' = "main_format"
                    /\ UNCHANGED exc
    /\ UNCHANGED <<attempts, i, ok, sel, saved, dated, latest, closeCalled,
                   pwExited, message, sink>>

\* message_text = format_slack_message(sheet_data); await capture_heatmap()
\* enters the async with block.
FormatMessage ==
    /\ pc = "main_format"
    /\ message' = format_slack_message(sheet)
    /\ Log("format", 0, "ok")
    /\ pc' = "launch"
    /\ UNCHANGED <<attempts, i, ok, sel, saved, dated, latest, closeCalled,
                   pwExited, exc, sheet, sink>>

\* -------------------------------------------------------- capture_heatmap
\* browser = await p.chromium.launch(...)
Launch ==
    /\ pc = "launch"
    /\ \E r \in {"ok", "raise"} :
         /\ Log("launch", 0, r)
         /\ IF r = "ok" THEN pc' = "new_context" /\ UNCHANGED exc
                        ELSE Raise("launch")
    /\ UNCHANGED <<attempts, i, ok, sel, saved, dated, latest, closeCalled,
                   pwExited, sheet, message, sink>>

\* context = await browser.new_context(...); page = await context.new_page()
NewContext ==
    /\ pc = "new_context"
    /\ \E r \in {"ok", "raise"} :
         /\ Log("new_context", 0, r)
         /\ IF r = "ok" THEN pc' = "init_script" /\ UNCHANGED exc
                        ELSE Raise("new_context")
    /\ UNCHANGED <<attempts, i, ok, sel, saved, dated, latest, closeCalled,
                   pwExited, sheet, message, sink>>

\* await page.add_init_script(...), then the call of line 126 with attempts=3
AddInitScript ==
    /\ pc = "init_script"
    /\ \E r \in {"ok", "raise"} :
         /\ Log("init_script", 0, r)
         /\ IF r = "ok"
               THEN /\ pc' = "gwr_loop"
                    /\ attempts' = Attempts
                    /\ i' = 1
                    /\ UNCHANGED exc
               ELSE /\ Raise("init_script")
                    /\ UNCHANGED <<attempts, i>>
    /\ UNCHANGED <<ok, sel, saved, dated, latest, closeCalled,
                   pwExited, sheet, message, sink>>

\* ------------------------------------------------------ goto_with_retries
\* Variant: range(1, attempts + 2), one attempt more.
RetryLoop_OneMore ==
    /\ pc = "gwr_loop"
    /\ IF i <= attempts + 1
          THEN pc' = "gwr_goto" /\ UNCHANGED ok
          ELSE pc' = "after_retry" /\ ok' = "False"
    /\ UNCHANGED <<attempts, i, sel, saved, dated, latest, closeCalled,
                   pwExited, exc, sheet, message, sink, trace>>

\* Variant: range(1, attempts), one attempt short.
RetryLoop_OneShort ==
    /\ pc = "gwr_loop"
    /\ IF i < attempts
          THEN pc' = "gwr_goto" /\ UNCHANGED ok
          ELSE pc' = "after_retry" /\ ok' = "False"
    /\ UNCHANGED <<attempts, i, sel, saved, dated, latest, closeCalled,
                   pwExited, exc, sheet, message, sink, trace>>

\* for i in range(1, attempts + 1): ... / return False
RetryLoop ==
    /\ pc = "gwr_loop"
    /\ IF i <= attempts
          THEN pc' = "gwr_goto" /\ UNCHANGED ok
          ELSE pc' = "after_retry" /\ ok' = "False"
    /\ UNCHANGED <<attempts, i, sel, saved, dated, latest, closeCalled,
                   pwExited, exc, sheet, message, sink, trace>>

\* await page.goto(url, wait_until="domcontentloaded", timeout=90_000)
GotoAttempt ==
    /\ pc = "gwr_goto"
    /\ \E r \in {"ok", "raise"} :
         /\ Log("goto", i, r)
         /\ pc' = IF r = "ok" THEN "gwr_idle" ELSE "gwr_except"
    /\ UNCHANGED <<attempts, i, ok, sel, saved, dated, latest, closeCalled,
                   pwExited, exc, sheet, message, sink>>

\* Variant: the network-quiet wait outside the try, its exception leaving
\* goto_with_retries.
IdleWait_Propagates ==
    /\ pc = "gwr_idle"
    /\ \E r \in {"ok", "raise"} :
         /\ Log("idle", i, r)
         /\ IF r = "ok"
               THEN pc' = "after_retry" /\ ok' = "True" /\ UNCHANGED exc
               ELSE Raise("idle") /\ UNCHANGED ok
    /\ UNCHANGED <<attempts, i, sel, saved, dated, latest, closeCalled,
                   pwExited, sheet, message, sink>>

\* await page.wait_for_load_state("networkidle", timeout=60_000); return True
\* The call is inside the try of lines 89-93: when it raises, the except
\* clause of line 94 takes it.
IdleWait ==
    /\ pc = "gwr_idle"
    /\ \E r \in {"ok", "raise"} :
         /\ Log("idle", i, r)
         /\ IF r = "ok"
               THEN pc' = "after_retry" /\ ok' = "True"
               ELSE pc' = "gwr_except" /\ UNCHANGED ok
    /\ UNCHANGED <<attempts, i, sel, saved, dated, latest, closeCalled,
                   pwExited, exc, sheet, message, sink>>

\* except Exception: if i == attempts: print(ERR); await asyncio.sleep(2 + i)
RetryExcept ==
    /\ pc = "gwr_except"
    /\ trace' = IF i = attempts
                   THEN trace \o << <<"log_err", i, "ok">>,
                                    <<"sleep", BackoffBase + i, "ok">> >>
                   ELSE Append(trace, <<"sleep", BackoffBase + i, "ok">>)
    /\ i' = i + 1
    /\ pc' = "gwr_loop"
    /\ UNCHANGED <<attempts, ok, sel, saved, dated, latest, closeCalled,
                   pwExited, exc, sheet, message, sink>>

\* -------------------------------------------------------- capture_heatmap
\* Variant: the test of line 127 inverted (if ok:).
AfterRetry_Inverted ==
    /\ pc = "after_retry"
    /\ IF ok = "False"
          THEN pc' = "dismiss_loop" /\ sel' = 1
          ELSE pc' = "final_goto" /\ UNCHANGED sel
    /\ UNCHANGED <<attempts, i, ok, saved, dated, latest, closeCalled,
                   pwExited, exc, sheet, message, sink, trace>>

\* if not ok: (line 127); otherwise the dismissal loop starts
AfterRetry ==
    /\ pc = "after_retry"
    /\ IF ok = "True"
          THEN pc' = "dismiss_loop" /\ sel' = 1
          ELSE pc' = "final_goto" /\ UNCHANGED sel
    /\ UNCHANGED <<attempts, i, ok, saved, dated, latest, closeCalled,
                   pwExited, exc, sheet, message, sink, trace>>

\* await page.goto(FINVIZ_URL, wait_until="load", timeout=120_000): unguarded
FinalGoto ==
    /\ pc = "final_goto"
    /\ \E r \in {"ok", "raise"} :
         /\ Log("goto_load", 0, r)
         /\ IF r = "ok"
               THEN pc' = "dismiss_loop" /\ sel' = 1 /\ UNCHANGED exc
               ELSE Raise("goto_load") /\ UNCHANGED sel
    /\ UNCHANGED <<attempts, i, ok, saved, dated, latest, closeCalled,
                   pwExited, sheet, message, sink>>

\* for sel in [accept selectors]: (line 131); falls through to saved = False
DismissLoop ==
    /\ pc = "dismiss_loop"
    /\ IF sel <= Len(AcceptSelectors)
          THEN pc' = "click" /\ UNCHANGED <<sel, saved>>
          ELSE pc' = "map_loop" /\ sel' = 1 /\ saved' = FALSE
    /\ UNCHANGED <<attempts, i, ok, dated, latest, closeCalled,
                   pwExited, exc, sheet, message, sink, trace>>

\* Variant: the break of line 140 missing.
Click_NoBreak ==
    /\ pc = "click"
    /\ \E r \in {"ok", "raise"} :
         /\ Log("click", sel, r)
         /\ pc' = "dismiss_loop"
         /\ sel' = sel + 1
    /\ UNCHANGED <<attempts, i, ok, saved, dated, latest, closeCalled,
                   pwExited, exc, sheet, message, sink>>

\* await page.locator(sel).first.click(timeout=1500); except: pass
Click ==
    /\ pc = "click"
    /\ \E r \in {"ok", "raise"} :
         /\ Log("click", sel, r)
         /\ IF r = "ok"
               THEN pc' = "click_sleep" /\ UNCHANGED sel
               ELSE pc' = "dismiss_loop" /\ sel' = sel + 1
    /\ UNCHANGED <<attempts, i, ok, saved, dated, latest, closeCalled,
                   pwExited, exc, sheet, message, sink>>

\* await asyncio.sleep(0.4); break; then saved = False (line 145)
ClickSleep ==
    /\ pc = "click_sleep"
    /\ Log("click_sleep", sel, "ok")
    /\ pc' = "map_loop"
    /\ sel' = 1
    /\ saved' = FALSE
    /\ UNCHANGED <<attempts, i, ok, dated, latest, closeCalled,
                   pwExited, exc, sheet, message, sink>>

\* for sel in ["#map", ...]: (line 146)
MapLoop ==
    /\ pc = "map_loop"
    /\ pc' = IF sel <= Len(MapSelectors) THEN "query" ELSE "after_map"
    /\ UNCHANGED <<attempts, i, ok, sel, saved, dated, latest, closeCalled,
                   pwExited, exc, sheet, message, sink, trace>>

\* el = await page.query_selector(sel); if el: ...; except: pass
QuerySelector ==
    /\ pc = "query"
    /\ \E r \in {"el", "none", "raise"} :
         /\ Log("query", sel, r)
         /\ IF r = "el"
               THEN pc' = "el_shot" /\ UNCHANGED sel
               ELSE pc' = "map_loop" /\ sel' = sel + 1
    /\ UNCHANGED <<attempts, i, ok, saved, dated, latest, closeCalled,
                   pwExited, exc, sheet, message, sink>>

\* Variant: break of line 152 missing.
ElementScreenshot_NoBreak ==
    /\ pc = "el_shot"
    /\ \E r \in {"ok", "raise"} :
         /\ Log("el_shot", sel, r)
         /\ pc' = "map_loop"
         /\ sel' = sel + 1
         /\ IF r = "ok"
               THEN /\ dated' = MapSelectors[sel]
                    /\ saved' = TRUE
                    /\ UNCHANGED exc
               ELSE UNCHANGED <<dated, saved, exc>>
    /\ UNCHANGED <<attempts, i, ok, latest, closeCalled,
                   pwExited, sheet, message, sink>>

\* Variant: saved = True of line 151 missing.
ElementScreenshot_NoSaved ==
    /\ pc = "el_shot"
    /\ \E r \in {"ok", "raise"} :
         /\ Log("el_shot", sel, r)
         /\ IF r = "ok"
               THEN /\ dated' = MapSelectors[sel]
                    /\ pc' = "after_map"
                    /\ UNCHANGED <<sel, saved, exc>>
               ELSE /\ pc' = "map_loop"
                    /\ sel' = sel + 1
                    /\ UNCHANGED <<dated, saved, exc>>
    /\ UNCHANGED <<attempts, i, ok, latest, closeCalled,
                   pwExited, sheet, message, sink>>

\* await el.screenshot(path=HEATMAP_PATH); saved = True; break
\* The call is inside the try of lines 147-152: when it raises, the bare
\* except of line 153 passes and the loop goes on with the next selector.
ElementScreenshot ==
    /\ pc = "el_shot"
    /\ \E r \in {"ok", "raise"} :
         /\ Log("el_shot", sel, r)
         /\ IF r = "ok"
               THEN /\ dated' = MapSelectors[sel]
                    /\ saved' = TRUE
                    /\ pc' = "after_map"
                    /\ UNCHANGED <<sel, exc>>
               ELSE /\ pc' = "map_loop"
                    /\ sel' = sel + 1
                    /\ UNCHANGED <<dated, saved, exc>>
    /\ UNCHANGED <<attempts, i, ok, latest, closeCalled,
                   pwExited, sheet, message, sink>>

\* Variant: the full-page fallback of lines 155-156 missing.
AfterMap_NoFallback ==
    /\ pc = "after_map"
    /\ pc' = "copy"
    /\ UNCHANGED <<attempts, i, ok, sel, saved, dated, latest, closeCalled,
                   pwExited, exc, sheet, message, sink, trace>>

\* if not saved: (line 155)
AfterMap ==
    /\ pc = "after_map"
    /\ pc' = IF saved THEN "copy" ELSE "full_shot"
    /\ UNCHANGED <<attempts, i, ok, sel, saved, dated, latest, closeCalled,
                   pwExited, exc, sheet, message, sink, trace>>

\* Variant: the full-page screenshot inside a try with a bare except.
FullPageScreenshot_Swallowed ==
    /\ pc = "full_shot"
    /\ \E r \in {"ok", "raise"} :
         /\ Log("full_shot", 0, r)
         /\ dated' = IF r = "ok" THEN "page" ELSE dated
         /\ pc' = "copy"
         /\ UNCHANGED exc
    /\ UNCHANGED <<attempts, i, ok, sel, saved, latest, closeCalled,
                   pwExited, sheet, message, sink>>

\* await page.screenshot(path=HEATMAP_PATH, full_page=True): unguarded
FullPageScreenshot ==
    /\ pc = "full_shot"
    /\ \E r \in {"ok", "raise"} :
         /\ Log("full_shot", 0, r)
         /\ IF r = "ok"
               THEN /\ dated' = "page"
                    /\ pc' = "copy"
                    /\ UNCHANGED exc
               ELSE /\ Raise("full_shot")
                    /\ UNCHANGED dated
    /\ UNCHANGED <<attempts, i, ok, sel, saved, latest, closeCalled,
                   pwExited, sheet, message, sink>>

\* Variant: the copy outside the try of lines 159-162.
CopyLatest_Propagates ==
    /\ pc = "copy"
    /\ \E r \in {"ok", "raise"} :
         /\ Log("copy", 0, r)
         /\ latest' = IF r = "ok" THEN dated ELSE latest
         /\ IF r = "ok" THEN pc' = "close" /\ UNCHANGED exc
                        ELSE Raise("copy")
    /\ UNCHANGED <<attempts, i, ok, sel, saved, dated, closeCalled,
                   pwExited, sheet, message, sink>>

\* try: shutil.copyfile(HEATMAP_PATH, HEATMAP_LATEST)
\* except Exception: print(WARN)
CopyLatest ==
    /\ pc = "copy"
    /\ \E r \in {"ok", "raise"} :
         /\ Log("copy", 0, r)
         /\ latest' = IF r = "ok" THEN dated ELSE latest
         /\ pc' = "close"
         /\ UNCHANGED exc
    /\ UNCHANGED <<attempts, i, ok, sel, saved, dated, closeCalled,
                   pwExited, sheet, message, sink>>

\* print(OK); await browser.close()
BrowserClose ==
    /\ pc = "close"
    /\ Log("close", 0, "ok")
    /\ closeCalled' = TRUE
    /\ pc' = "pw_exit"
    /\ UNCHANGED <<attempts, i, ok, sel, saved, dated, latest,
                   pwExited, exc, sheet, message, sink>>

\* Variant: the exception that left the body is swallowed at the block's
\* exit and main goes on.
PlaywrightExit_Swallows ==
    /\ pc = "pw_exit"
    /\ Log("pw_exit", 0, "ok")
    /\ pwExited' = TRUE
    /\ pc' = "main_output"
    /\ UNCHANGED <<attempts, i, ok, sel, saved, dated, latest, closeCalled,
                   exc, sheet, message, sink>>

\* leaving async with async_playwright() as p: normally, or with the
\* exception that left the body, which goes on to main and out of it
PlaywrightExit ==
    /\ pc = "pw_exit"
    /\ Log("pw_exit", 0, "ok")
    /\ pwExited' = TRUE
    /\ pc' = IF exc = "none" THEN "main_output" ELSE "failed"
    /\ UNCHANGED <<attempts, i, ok, sel, saved, dated, latest, closeCalled,
                   exc, sheet, message, sink>>

\* ------------------------------------------------------------------ main
\* Variant: the file opened with mode "w".
WriteOutput_Truncates ==
    /\ pc = "main_output"
    /\ \E present \in BOOLEAN :
         /\ Log("output", 0, IF present THEN "ok" ELSE "none")
         /\ sink' = IF present THEN OutputBlock(message) ELSE sink
    /\ pc' = "done"
    /\ UNCHANGED <<attempts, i, ok, sel, saved, dated, latest, closeCalled,
                   pwExited, exc, sheet, message>>

\* gh_output = os.environ.get("GITHUB_OUTPUT"); if gh_output: append block
WriteOutput ==
    /\ pc = "main_output"
    /\ \E present \in BOOLEAN :
         /\ Log("output", 0, IF present THEN "ok" ELSE "none")
         /\ sink' = IF present
                       THEN sink \o OutputBlock(message)
                       ELSE sink
    /\ pc' = "done"
    /\ UNCHANGED <<attempts, i, ok, sel, saved, dated, latest, closeCalled,
                   pwExited, exc, sheet, message>>

Next ==
    \/ ReadSheet
    \/ FormatMessage
    \/ Launch
    \/ NewContext
    \/ AddInitScript
    \/ RetryLoop
    \/ GotoAttempt
    \/ IdleWait
    \/ RetryExcept
    \/ AfterRetry
    \/ FinalGoto
    \/ DismissLoop
    \/ Click
    \/ ClickSleep
    \/ MapLoop
    \/ QuerySelector
    \/ ElementScreenshot
    \/ AfterMap
    \/ FullPageScreenshot
    \/ CopyLatest
    \/ BrowserClose
    \/ PlaywrightExit
    \/ WriteOutput

Spec == Init /\ [][Next]_vars

\* -------------------------------- goto_with_retries called with any attempts
\* The call of line 126 with the attempts argument drawn from
\* 0..MaxAttempts, followed by the caller's lines 127-128.
InitRetry ==
    /\ pc = "gwr_loop"
    /\ attempts \in 0..MaxAttempts
    /\ i = 1
    /\ ok = "unset"
    /\ sel = 0
    /\ saved = FALSE
    /\ dated = "absent"
    /\ latest = "absent"
    /\ closeCalled = FALSE
    /\ pwExited = FALSE
    /\ exc = "none"
    /\ sheet = SampleRow
    /\ message = format_slack_message(SampleRow)
    /\ sink = PriorSink
    /\ trace = << >>

NextRetry ==
    \/ RetryLoop
    \/ GotoAttempt
    \/ IdleWait
    \/ RetryExcept
    \/ AfterRetry
    \/ FinalGoto
    \/ PlaywrightExit

SpecRetry == InitRetry /\ [][NextRetry]_vars

\* ===================================================================
\* Properties
\* ===================================================================
GwrPcs == {"gwr_loop", "gwr_goto", "gwr_idle", "gwr_except"}

\* goto_with_retries has returned
Returned == ok # "unset"

\* the caller is past lines 127-128
PastFallback == Returned /\ pc \notin GwrPcs \cup {"after_retry", "final_goto"}

\* C1: for every attempts >= 1 and every K in 1..attempts: when attempts
\* 1..K-1 fail and attempt K succeeds, goto_with_retries returns True after
\* exactly K page.goto calls, and the caller makes no final fallback goto.
SuccessAtKMakesKCalls ==
    \A K \in 1..attempts :
        (AttemptSucceeded(K) /\ \A j \in 1..(K - 1) : AttemptFailed(j))
        => /\ ok = "True"
           /\ Calls("goto") = K
           /\ Idx("goto") = {m \in 1..Len(trace) :
                               /\ trace[m][1] = "goto"
                               /\ trace[m][2] \in 1..K}
           /\ Calls("goto_load") = 0
           /\ pc # "final_goto"

\* witness of C1: success at the third attempt after two failed ones, the
\* caller past line 127
WitnessSuccessAtK ==
    /\ attempts >= 3
    /\ AttemptFailed(1) /\ AttemptFailed(2) /\ AttemptSucceeded(3)
    /\ pc = "dismiss_loop"

\* C2: when every attempt fails, goto_with_retries returns False after
\* exactly attempts page.goto calls, the caller then makes the final
\* fallback goto exactly once, and at most attempts + 1 goto calls are made.
AllFailMakesNCallsThenOneFallback ==
    /\ (Returned /\ \A k \in 1..attempts : AttemptFailed(k))
       => /\ ok = "False"
          /\ Calls("goto") = attempts
    /\ ok = "False" => \A k \in 1..attempts : AttemptFailed(k)
    /\ (ok = "False" /\ PastFallback) => Calls("goto_load") = 1
    /\ (ok = "False" /\ ~PastFallback) => Calls("goto_load") = 0
    /\ Calls("goto") + Calls("goto_load") <= attempts + 1

\* witness of C2: three failed attempts, then the fallback call made
WitnessAllFail ==
    /\ attempts = Attempts
    /\ \A k \in 1..attempts : AttemptFailed(k)
    /\ Calls("goto") = Attempts
    /\ Calls("goto_load") = 1

\* C5: a failure of the network-quiet wait after a successful page.goto
\* never triggers a retry: no further goto call is made and
\* goto_with_retries returns True.
NetworkQuietFailureNeverRetries ==
    \A k \in IdxRes("idle", "raise") :
        /\ \A m \in Idx("goto") \cup Idx("goto_load") : m < k
        /\ Returned => ok = "True"

\* C6: goto_with_retries never raises past its boundary: it returns a
\* boolean, True exactly when some attempt completed and False exactly
\* when all attempts failed.
RetryReturnsBoolean ==
    /\ pc \in GwrPcs => (ok = "unset" /\ exc = "none")
    /\ pc \notin GwrPcs
       => /\ ok \in {"True", "False"}
          /\ ok = "True" <=> \E k \in 1..attempts : AttemptSucceeded(k)
          /\ ok = "False" <=> \A k \in 1..attempts : AttemptFailed(k)
    /\ exc \in {"none", "goto_load"}

\* witness of C6: both return values after exceptions of both calls
WitnessRetryReturns ==
    /\ pc = "after_retry"
    /\ ok = "True"
    /\ Has("goto", 1, "raise")
    /\ Has("idle", 2, "raise")

\* ---------------------------------------------------------- capture_heatmap
SessionOpened == Has("launch", 0, "ok")

\* capture_heatmap has returned to main or raised into it
CaptureLeft == Idx("launch") # {} /\ pc \in {"main_output", "done", "failed"}

CaptureOps == {"launch", "new_context", "init_script", "goto", "idle",
               "log_err", "sleep", "goto_load", "click", "click_sleep",
               "query", "el_shot", "full_shot", "copy", "close", "pw_exit"}

\* the last call capture_heatmap made
LastCaptureOp ==
    LET ks == {k \in 1..Len(trace) : trace[k][1] \in CaptureOps}
    IN  IF ks = {} THEN "none"
        ELSE trace[CHOOSE k \in ks : \A m \in ks : m <= k][1]

\* C3 as stated: on every exit path after the session was opened,
\* browser.close() has been reached when capture_heatmap returns or raises.
BrowserCloseOnEveryExit ==
    (CaptureLeft /\ SessionOpened) => closeCalled

\* C3 as amended: on every exit path after the session was opened the
\* async with block of line 102 is left, as the last step of the capture;
\* browser.close() is reached exactly on the paths where nothing raised,
\* directly before that.
ContextExitOnEveryExit ==
    /\ (CaptureLeft /\ SessionOpened)
       => /\ pwExited
          /\ LastCaptureOp = "pw_exit"
          /\ closeCalled <=> exc = "none"
    /\ closeCalled <=> Has("close", 0, "ok")
    /\ \A k \in Idx("close") :
          \A m \in (k + 1)..Len(trace) :
             /\ trace[m][1] \in {"pw_exit", "output"}
             /\ m = k + 1 => trace[m][1] = "pw_exit"

\* witness of C3: the full-page screenshot raised and the error reached main
WitnessExitAfterRaise ==
    /\ pc = "failed"
    /\ exc = "full_shot"
    /\ SessionOpened
    /\ pwExited
    /\ ~closeCalled

\* ---------------------------------------------------- element fallback chain
\* selectors for which query_selector returned an element
Located == {trace[k][2] : k \in IdxRes("query", "el")}

\* the stub of the claim: only selector n matches, no lookup raises
OnlyNthMatches(n) == Located = {n} /\ IdxRes("query", "raise") = {}

\* the chain and the test of line 155 are behind
ChainDone ==
    \/ pc = "copy"
    \/ Idx("copy") # {}
    \/ IdxRes("full_shot", "raise") # {}

ChainPcs == {"map_loop", "query", "el_shot", "after_map"}

\* C4 as stated: when exactly the Nth selector locates an element the
\* capture screenshots that element and takes no full-page screenshot; when
\* none does, it takes a full-page screenshot; lookups never raise out.
ElementChainUsesNth ==
    /\ \A n \in 1..Len(MapSelectors) :
          (ChainDone /\ OnlyNthMatches(n))
          => /\ \E r \in {"ok", "raise"} : Has("el_shot", n, r)
             /\ Calls("full_shot") = 0
    /\ (ChainDone /\ Located = {}) => Calls("full_shot") = 1
    /\ pc \in ChainPcs => exc = "none"

\* C4 as amended: when exactly the Nth selector locates an element, that
\* element's screenshot is called; if it succeeds it is the artifact and no
\* full-page screenshot is taken, if it raises the error is swallowed and
\* the full-page screenshot is taken; when no selector locates an element
\* the full-page screenshot is taken; nothing raises out of the chain.
ElementChainUsesNthIfShotSucceeds ==
    /\ \A n \in 1..Len(MapSelectors) :
          /\ OnlyNthMatches(n)
             => (pc = "el_shot" \/ \E r \in {"ok", "raise"} : Has("el_shot", n, r))
          /\ (ChainDone /\ OnlyNthMatches(n) /\ Has("el_shot", n, "ok"))
             => /\ Calls("full_shot") = 0
                /\ Calls("el_shot") = 1
                /\ saved
                /\ dated = MapSelectors[n]
          /\ (ChainDone /\ OnlyNthMatches(n) /\ Has("el_shot", n, "raise"))
             => /\ Calls("full_shot") = 1
                /\ ~saved
    /\ (ChainDone /\ Located = {})
       => /\ Calls("full_shot") = 1
          /\ Calls("el_shot") = 0
    /\ pc \in ChainPcs => exc = "none"

\* witness of C4: only the third selector matched, its screenshot was taken
\* and the capture went on to the copy
WitnessThirdSelector ==
    /\ OnlyNthMatches(3)
    /\ Has("query", 1, "none") /\ Has("query", 2, "none")
    /\ Has("el_shot", 3, "ok")
    /\ pc = "close"

\* C7 as stated: whenever a screenshot call raises (element or full page)
\* the error propagates out of capture_heatmap and the run fails; this is
\* the only failure mode of the lookup and capture stage.
AnyScreenshotRaiseIsFatal ==
    /\ (IdxRes("el_shot", "raise") \cup IdxRes("full_shot", "raise")) # {}
       => /\ exc \in {"el_shot", "full_shot"}
          /\ pc \in {"pw_exit", "failed"}
    /\ (exc # "none" /\ Idx("query") # {})
       => (IdxRes("el_shot", "raise") \cup IdxRes("full_shot", "raise")) # {}

\* C7 as amended: a full-page screenshot call that raises is fatal (the
\* error propagates and the run fails) and is the only failure mode of the
\* lookup and capture stage; an element screenshot that raises is swallowed
\* like a lookup that raises, and the chain goes on.
FullPageScreenshotRaiseIsFatal ==
    /\ IdxRes("full_shot", "raise") # {}
       => /\ exc = "full_shot"
          /\ pc \in {"pw_exit", "failed"}
    /\ (exc # "none" /\ Idx("query") # {}) => IdxRes("full_shot", "raise") # {}
    /\ \A k \in IdxRes("el_shot", "raise") \cup IdxRes("query", "raise") :
          IF k < Len(trace)
             THEN trace[k + 1][1] \in {"query", "full_shot"}
             ELSE pc \in ChainPcs \cup {"full_shot"} /\ exc = "none"

\* witness of C7: an element screenshot raised, then the full-page
\* screenshot raised and the run failed
WitnessFullPageFatal ==
    /\ IdxRes("el_shot", "raise") # {}
    /\ Has("full_shot", 0, "raise")
    /\ pc = "failed"

\* --------------------------------------------------- interstitial dismissal
DismissPcs == {"dismiss_loop", "click", "click_sleep"}

\* C8: the accept selectors are clicked in list order, at most one click
\* succeeds and none is tried after it; no click failure aborts the
\* capture: dismissal is always left to the element lookup.
DismissalBestEffort ==
    /\ Calls("click") <= Len(AcceptSelectors)
    /\ \A k \in Idx("click") :
          trace[k][2] = Cardinality({m \in Idx("click") : m <= k})
    /\ Cardinality(IdxRes("click", "ok")) <= 1
    /\ \A k \in IdxRes("click", "ok") : \A m \in Idx("click") : m <= k
    /\ pc \in DismissPcs => exc = "none"
    /\ \A k \in Idx("click") \cup Idx("click_sleep") :
          k < Len(trace) => trace[k + 1][1] \in {"click", "click_sleep", "query"}
    /\ (Idx("click") # {} /\ pc \notin DismissPcs \cup {"map_loop"})
       => Has("query", 1, "el") \/ Has("query", 1, "none") \/ Has("query", 1, "raise")
          \/ pc = "query"

\* witness of C8: the first click failed, the second succeeded, and the
\* element lookup started
WitnessDismissed ==
    /\ Has("click", 1, "raise")
    /\ Has("click", 2, "ok")
    /\ Calls("click") = 2
    /\ Idx("query") # {}

\* ------------------------------------------------------ artifact persistence
\* a screenshot call of this run wrote HEATMAP_PATH
Written == (IdxRes("el_shot", "ok") \cup IdxRes("full_shot", "ok")) # {}

Stage(op) ==
    CASE op \in {"fetch", "format"} -> 0
      [] op \in {"launch", "new_context"} -> 1
      [] op = "init_script" -> 2
      [] op \in {"goto", "idle", "log_err", "sleep", "goto_load"} -> 3
      [] op \in {"click", "click_sleep"} -> 4
      [] op \in {"query", "el_shot"} -> 5
      [] op = "full_shot" -> 6
      [] op = "copy" -> 7
      [] op = "close" -> 8
      [] op = "pw_exit" -> 9
      [] op = "output" -> 10

Navigated == (\E k \in 1..attempts : AttemptSucceeded(k)) \/ Has("goto_load", 0, "ok")

\* C10: the steps of a run occur strictly in sequence: evasion script
\* injection before the first navigation, navigation (or its fallback)
\* before dismissal, dismissal before element lookup, lookup before the
\* screenshot, the screenshot before the latest copy, and the release
\* (leaving the async with block, after browser.close() when nothing
\* raised) as the final step of the capture on every path.
StepsInOrder ==
    /\ \A a \in 1..(Len(trace) - 1) :
          Stage(trace[a][1]) <= Stage(trace[a + 1][1])
    /\ (Idx("goto") \cup Idx("goto_load")) # {} => Has("init_script", 0, "ok")
    /\ Idx("click") # {} => Navigated
    /\ Idx("query") # {} => Navigated
    /\ \A k \in Idx("query") :
          \A m \in Idx("click") \cup Idx("click_sleep") : m < k
    /\ \A k \in Idx("el_shot") :
          k > 1 /\ trace[k - 1] = <<"query", trace[k][2], "el">>
    /\ \A k \in Idx("full_shot") : Calls("query") = Len(MapSelectors)
    /\ \A k \in Idx("copy") :
          \E j \in 1..(k - 1) : /\ trace[j][1] \in {"el_shot", "full_shot"}
                                /\ trace[j][3] = "ok"
    /\ Calls("pw_exit") <= 1
    /\ Calls("close") <= 1
    /\ CaptureLeft => LastCaptureOp = "pw_exit"
    /\ \A k \in Idx("close") : k < Len(trace) => trace[k + 1][1] = "pw_exit"

\* witness of C10: a run through the fallback navigation, a dismissal, an
\* element screenshot that raised, the full-page screenshot, the copy and
\* the release
WitnessFullRun ==
    /\ Has("init_script", 0, "ok")
    /\ Has("goto_load", 0, "ok")
    /\ Has("click", 1, "ok")
    /\ Has("el_shot", 2, "raise")
    /\ Has("full_shot", 0, "ok")
    /\ Has("copy", 0, "ok")
    /\ closeCalled
    /\ pwExited
    /\ pc = "done"

\* ---------------------------------- format_slack_message on any cell text
\* texts of at most n tokens
Texts(n) == UNION {[1..k -> CellTokens] : k \in 0..n}

\* main at line 176 with a row read whose cell at one position is any text
\* of at most MaxCell tokens
InitFormat ==
    /\ pc = "main_format"
    /\ attempts = 0
    /\ i = 0
    /\ ok = "unset"
    /\ sel = 0
    /\ saved = FALSE
    /\ dated = "absent"
    /\ latest = "absent"
    /\ closeCalled = FALSE
    /\ pwExited = FALSE
    /\ exc = "none"
    /\ sheet \in {[SampleRow EXCEPT ![p] = t] :
                    p \in 1..Len(Fields), t \in Texts(MaxCell)}
    /\ message = << >>
    /\ sink = PriorSink
    /\ trace = << <<"fetch", RequiredCols, "ok">> >>

NextFormat == FormatMessage

SpecFormat == InitFormat /\ [][NextFormat]_vars

\* ------------------------------------------------------------------- main
Formatted == Idx("format") # {}

\* C11: main completes only with the message formatted and the dated
\* artifact written; the block is appended to the sink only after
\* capture_heatmap has completed, and a fatal capture failure leaves the
\* sink unwritten and ends the run with an error.
CompletesOnlyWithMessageAndArtifact ==
    /\ pc = "done"
       => /\ Formatted
          /\ message = format_slack_message(sheet)
          /\ Written
          /\ dated \in {MapSelectors[n] : n \in 1..Len(MapSelectors)} \cup {"page"}
    /\ (sink # PriorSink \/ Idx("output") # {})
       => /\ pwExited
          /\ exc = "none"
          /\ pc = "done"
          /\ \A k \in Idx("output") : \E j \in Idx("pw_exit") : j < k
    /\ exc # "none"
       => /\ sink = PriorSink
          /\ pc \notin {"main_output", "done"}
    /\ (exc # "none" /\ pwExited) => pc = "failed"

\* witness of C11: a run that failed in the capture after the message was
\* formatted
WitnessCaptureFailed ==
    /\ pc = "failed"
    /\ exc = "goto_load"
    /\ Formatted
    /\ sink = PriorSink

\* C12: for a data row of fewer than nine columns read_google_sheet fails
\* with the data-malformed error and the run does nothing else: no
\* formatting, no browser session, no image, nothing appended to the sink.
ShortRowAborts ==
    \A k \in Idx("fetch") :
        (trace[k][2] < RequiredCols /\ trace[k][3] # "raise")
        => /\ trace[k][3] = "malformed"
           /\ exc = "malformed"
           /\ pc = "failed"
           /\ Len(trace) = 1
           /\ sheet = << >>
           /\ message = << >>
           /\ dated \in {"absent", "old"}
           /\ latest \in {"absent", "old"}
           /\ sink = PriorSink
           /\ ~ENABLED Next

\* witness of C12: an eight-column row was read
WitnessShortRow ==
    /\ Has("fetch", RequiredCols - 1, "malformed")
    /\ pc = "failed"

\* ---------------------------------------------------- message text and sink
RECURSIVE SplitLines(_)
\* the lines of a text
SplitLines(t) ==
    IF \E k \in 1..Len(t) : t[k] = NL
       THEN LET k == CHOOSE k \in 1..Len(t) :
                       t[k] = NL /\ \A j \in 1..(k - 1) : t[j] # NL
            IN  <<SubSeq(t, 1, k - 1)>> \o SplitLines(SubSeq(t, k + 1, Len(t)))
       ELSE <<t>>

\* fields shown with fmt_pct
PercentFields == (2..Len(Fields)) \ {UsdCad}

\* C13: the message is the date header line, the separator line and exactly
\* one line per metric field in the fixed order, each with its fixed label,
\* and the value of every percent-style field ends in a percent sign, for
\* every cell text.
MessageShapeAndPercent ==
    Formatted
    => LET ls == SplitLines(message)
       IN  /\ Len(ls) = Len(Fields) + 1
           /\ ls[1] = <<Labels[1]>> \o sheet[1] \o <<" Market*">>
           /\ ls[2] = <<Separator>>
           /\ \A k \in 2..Len(Fields) :
                 /\ Len(ls[k + 1]) >= 2
                 /\ ls[k + 1][1] = Labels[k]
           /\ \A k \in PercentFields : ls[k + 1][Len(ls[k + 1])] = "%"

\* the lines of the sink file made by one block
FileLines(block) == << <<block[1]>> >> \o SplitLines(block[2]) \o << <<block[3]>> >>

RECURSIVE UpToSentinel(_)
\* the lines before the first line that is the delimiter
UpToSentinel(ls) ==
    IF ls = << >> \/ Head(ls) = <<"EOF">> THEN << >>
    ELSE <<Head(ls)>> \o UpToSentinel(Tail(ls))

\* what a reader of the block takes for the value: the lines from the
\* opening marker to the first delimiter line
Extracted(block) == UpToSentinel(Tail(FileLines(block)))

\* C14: the delimiter of the block is unique: no line of a message that
\* format_slack_message produces is the line EOF, so reading from the
\* opening marker to the first delimiter line recovers the message.
SentinelIsUnique ==
    Formatted
    => /\ \A k \in 1..Len(SplitLines(message)) : SplitLines(message)[k] # <<"EOF">>
       /\ Extracted(OutputBlock(message)) = SplitLines(message)

\* C15: without GITHUB_OUTPUT main emits nothing and still completes; with
\* it main only appends: the previous contents of the sink stay as a
\* prefix, followed by exactly one block holding the message.
SinkAppendOnly ==
    /\ Len(sink) >= Len(PriorSink)
    /\ SubSeq(sink, 1, Len(PriorSink)) = PriorSink
    /\ Idx("output") = {} => sink = PriorSink
    /\ Has("output", 0, "none") => (sink = PriorSink /\ pc = "done")
    /\ Has("output", 0, "ok")
       => /\ sink = PriorSink \o << "market_text<<EOF", message, "EOF" >>
          /\ message = format_slack_message(sheet)
          /\ pc = "done"
    /\ Calls("output") <= 1

\* witness of C15: a run that appended its block
WitnessAppended ==
    /\ Has("output", 0, "ok")
    /\ Len(sink) = Len(PriorSink) + 3
    /\ pc = "done"

\* ------------------------------------------------------------------ backoff
\* C16: a backoff wait follows a failed attempt only if attempts remain:
\* after failed attempt i < attempts the wait is 2 + i seconds, increasing
\* with i, and after the final failed attempt there is no wait.
BackoffOnlyWhileAttemptsRemain ==
    /\ \A k \in Idx("sleep") :
          LET j == trace[k][2] - BackoffBase
          IN  /\ j \in 1..(attempts - 1)
              /\ AttemptFailed(j)
    /\ \A k, m \in Idx("sleep") : k < m => trace[k][2] < trace[m][2]
    /\ (ok = "False" /\ attempts >= 1) => Calls("sleep") = attempts - 1

\* -------------------------------------------------- capture_heatmap alone
\* main at line 180, the message formatted
InitCapture ==
    /\ pc = "launch"
    /\ attempts = 0
    /\ i = 0
    /\ ok = "unset"
    /\ sel = 0
    /\ saved = FALSE
    /\ dated \in {"absent", "old"}
    /\ latest \in {"absent", "old"}
    /\ closeCalled = FALSE
    /\ pwExited = FALSE
    /\ exc = "none"
    /\ sheet = SampleRow
    /\ message = format_slack_message(SampleRow)
    /\ sink = PriorSink
    /\ trace = << <<"fetch", RequiredCols, "ok">>, <<"format", 0, "ok">> >>

NextCapture ==
    \/ Launch
    \/ NewContext
    \/ AddInitScript
    \/ RetryLoop
    \/ GotoAttempt
    \/ IdleWait
    \/ RetryExcept
    \/ AfterRetry
    \/ FinalGoto
    \/ DismissLoop
    \/ Click
    \/ ClickSleep
    \/ MapLoop
    \/ QuerySelector
    \/ ElementScreenshot
    \/ AfterMap
    \/ FullPageScreenshot
    \/ CopyLatest
    \/ BrowserClose
    \/ PlaywrightExit

\* Every awaited call returns or raises within its timeout and the event
\* loop resumes the task: a step that can be taken is taken.
SpecCapture == InitCapture /\ [][NextCapture]_vars /\ WF_vars(NextCapture)

\* capture_heatmap has returned or raised into main
CaptureOver == pc \in {"main_output", "failed"}

\* C17: every run of capture_heatmap terminates, in normal completion or
\* in a propagated error, after at most attempts + 1 navigation calls, four
\* click attempts and four element lookups.
CaptureTerminates ==
    /\ <>CaptureOver
    /\ [](/\ Calls("goto") <= Attempts
          /\ Calls("goto_load") <= 1
          /\ Calls("goto") + Calls("goto_load") <= Attempts + 1
          /\ Calls("click") <= Len(AcceptSelectors)
          /\ Calls("query") <= Len(MapSelectors))

\* witness of C17: a run that ended after the most calls of each kind
WitnessLongestRun ==
    /\ CaptureOver
    /\ Calls("goto") + Calls("goto_load") = Attempts + 1
    /\ Calls("click") = Len(AcceptSelectors)
    /\ Calls("query") = Len(MapSelectors)

\* ----------------------------------------------------- the written artifact
\* successful screenshot calls of this run
ShotsOk == IdxRes("el_shot", "ok") \cup IdxRes("full_shot", "ok")

\* all screenshot calls of this run
Shots == Idx("el_shot") \cup Idx("full_shot")

\* capture_heatmap has returned normally
CaptureReturned == pwExited /\ exc = "none"

\* what a successful screenshot call writes to HEATMAP_PATH
ShotContent(k) ==
    IF trace[k][1] = "full_shot" THEN "page" ELSE MapSelectors[trace[k][2]]

\* C18: when capture_heatmap returns normally the dated artifact has been
\* written by exactly one successful screenshot call: the full-page
\* screenshot is called if and only if no element screenshot succeeded,
\* and no screenshot call follows the first successful one.
ExactlyOneSuccessfulScreenshot ==
    /\ CaptureReturned
       => /\ Cardinality(ShotsOk) = 1
          /\ \A k \in ShotsOk : dated = ShotContent(k)
          /\ Idx("full_shot") # {} <=> IdxRes("el_shot", "ok") = {}
    /\ \A k \in ShotsOk : \A m \in Shots : m <= k
    /\ Idx("full_shot") # {} => IdxRes("el_shot", "ok") = {}
    /\ Calls("full_shot") <= 1

\* witness of C18: a normal return after an element screenshot that raised
\* and one that succeeded
WitnessOneScreenshot ==
    /\ CaptureReturned
    /\ Has("el_shot", 1, "raise")
    /\ Has("el_shot", 2, "ok")
    /\ dated = MapSelectors[2]

\* C19: the latest artifact is only overwritten with a copy of this run's
\* dated artifact: the copy is attempted only after a screenshot call of
\* this run succeeded, a run that fails fatally leaves the latest path as
\* it was, and after a successful copy the latest content is the dated one.
LatestOnlyFromThisRun ==
    /\ [](/\ \A k \in Idx("copy") : \E j \in ShotsOk : j < k
          /\ Has("copy", 0, "ok") => (latest = dated /\ Written)
          /\ Idx("copy") = {} => latest \in {"absent", "old"}
          /\ exc # "none" => (Idx("copy") = {} /\ latest \in {"absent", "old"}))
    /\ [][latest' # latest
             => /\ pc = "copy"
                /\ Written
                /\ latest' = dated
                /\ dated' = dated
                /\ exc = "none"]_vars

\* witness of C19: a run that failed fatally with the old latest artifact
\* in place
WitnessLatestKept ==
    /\ pc = "failed"
    /\ exc = "full_shot"
    /\ latest = "old"
    /\ dated = "absent"

====
